---------------------------- MODULE Spec2Model ----------------------------
(***************************************************************************)
(* A model of the planet propagator of cython_numba_planet.ipynb: the      *)
(* Planet record, single_step (explicit Euler under a central 1/r^2 force) *)
(* and propagate (the driving loop), in the three implementations the      *)
(* notebook holds: pure Python, the final Cython version compiled with     *)
(* cdivision(True), and the Numba version.                                 *)
(*                                                                         *)
(* Floating point.  A double is modelled by a small binary-style format:   *)
(* a finite value is an integer n in -MaxFloat..MaxFloat standing for      *)
(* n/Scale; every operation rounds its exact result to the nearest         *)
(* representable value (so small results underflow to 0) and a result      *)
(* beyond MaxFloat overflows.  The IEEE special values are kept: PosInf,   *)
(* NegInf and NaN, with the IEEE rules for them.  Signed zeros are not     *)
(* kept (a zero divisor counts as +0, which is what r3 always is).         *)
(***************************************************************************)
EXTENDS Integers, Sequences, FiniteSets, TLC

\* ------------------------------------------------------------------ bounds
\* units per 1.0: the precision of the modelled floating-point format
Scale == 16
\* the largest finite value of the modelled format, in units of 1/Scale
MaxFloat == 1024
\* the largest num_steps handed to propagate
MaxSteps == 3
\* the number of calls (Planet, single_step, propagate) and attribute
\* assignments made in one run
MaxCalls == 2

\* --------------------------------------------------------- floating point
PosInf == MaxFloat + 1
NegInf == -PosInf
NaN == MaxFloat + 2

Float == (NegInf..PosInf) \cup {NaN}

IsFinite(a) == a >= -MaxFloat /\ a <= MaxFloat
IsInf(a) == a = PosInf \/ a = NegInf

Abs(n) == IF n < 0 THEN -n ELSE n
Sgn(n) == IF n < 0 THEN -1 ELSE IF n > 0 THEN 1 ELSE 0

\* the integer nearest to n/d, for d > 0
RoundDiv(n, d) == Sgn(n) * ((Abs(n) + (d \div 2)) \div d)

\* an exact result in units of 1/Scale, as the format stores it
Store(n) == IF n > MaxFloat THEN PosInf ELSE IF n < -MaxFloat THEN NegInf ELSE n

\* an int converted to a double
FromInt(n) == Store(n * Scale)

\* -a
FNeg(a) == IF a = NaN THEN NaN ELSE -a

\* a + b
FAdd(a, b) ==
    IF a = NaN \/ b = NaN THEN NaN
    ELSE IF IsInf(a) /\ IsInf(b) THEN (IF a = b THEN a ELSE NaN)
    ELSE IF IsInf(a) THEN a
    ELSE IF IsInf(b) THEN b
    ELSE Store(a + b)

\* a * b
FMul(a, b) ==
    IF a = NaN \/ b = NaN THEN NaN
    ELSE IF IsInf(a) \/ IsInf(b)
         THEN (IF a = 0 \/ b = 0 THEN NaN
               ELSE IF Sgn(a) * Sgn(b) > 0 THEN PosInf ELSE NegInf)
    ELSE Store(RoundDiv(a * b, Scale))

\* a / b by the IEEE rules: no trap, x/0 is an infinity or NaN
FDiv(a, b) ==
    IF a = NaN \/ b = NaN THEN NaN
    ELSE IF IsInf(a) /\ IsInf(b) THEN NaN
    ELSE IF IsInf(a) THEN (IF b >= 0 THEN a ELSE -a)
    ELSE IF IsInf(b) THEN 0
    ELSE IF b = 0 THEN (IF a = 0 THEN NaN ELSE IF a > 0 THEN PosInf ELSE NegInf)
    ELSE Store(Sgn(b) * RoundDiv(a * Scale, Abs(b)))

\* the integer nearest to the square root of n >= 0
ISqrt(n) ==
    LET s == CHOOSE k \in 0..(n + 1) : k * k <= n /\ (k + 1) * (k + 1) > n
    IN  IF n - s * s > s THEN s + 1 ELSE s

\* sqrt(a): a is a sum of squares here, never negative
FSqrt(a) ==
    IF a = NaN \/ a < 0 THEN NaN
    ELSE IF a = PosInf THEN PosInf
    ELSE ISqrt(a * Scale)

\* the exact value of a**k (k = 2 or 3) for a finite a, rounded once, before
\* the range check
PowExact(a, k) ==
    IF k = 2 THEN RoundDiv(a * a, Scale) ELSE RoundDiv(a * a * a, Scale * Scale)

\* a finite a whose power a**k leaves the range of the format
PowOverflows(a, k) == IsFinite(a) /\ Abs(PowExact(a, k)) > MaxFloat

\* a**k as C's pow gives it: an overflow is an infinity
FPow(a, k) ==
    IF a = NaN THEN NaN
    ELSE IF IsInf(a) THEN (IF k = 2 THEN PosInf ELSE a)
    ELSE Store(PowExact(a, k))

\* ------------------------------------------------------- implementations
\* the implementations of the notebook: pure Python (cell 12), the final
\* Cython version (cell 30) and the Numba version (cells 39-40)
Variants == {"python", "cython", "numba"}

\* every implementation checking its divisions, cdivision(True) ignored
DivRaisesEverywhere(v) == TRUE

\* every implementation raising OverflowError from its power, as if the
\* compiled pow() were the interpreter's float **
PowRaisesEverywhere(v) == TRUE

\* float ** raises OverflowError on a finite overflow only in the interpreter
PowRaises(v) == v = "python"

\* a true division by zero raises ZeroDivisionError unless C division
\* semantics were requested with cdivision(True)
DivRaises(v) == v \in {"python", "numba"}

\* --------------------------------------------------------------- Planet
Fields == {"x", "y", "z", "vx", "vy", "vz", "m"}

\* a constructor that leaves the mass at zero
NewPlanetMassless ==
    [x |-> FromInt(1), y |-> 0, z |-> 0,
     vx |-> 0, vy |-> 0, vz |-> FromInt(1),
     m |-> 0]

\* Planet.__init__(self): the fields a fresh Planet holds
NewPlanet ==
    [x |-> FromInt(1), y |-> 0, z |-> 0,
     vx |-> 0, vy |-> 0, vz |-> FromInt(1),
     m |-> FromInt(1)]

\* a constructor that would also take the seven values
CtorAcceptsValues(args) == Len(args) \in {0, 7}

\* __init__ takes no argument besides self: a call that passes any fails
CtorAccepts(args) == Len(args) = 0

\* ---------------------------------------------------------- single_step
\* r = sqrt(planet.x**2 + planet.y**2 + planet.z**2)
Radius(p) ==
    FSqrt(FAdd(FAdd(FPow(p.x, 2), FPow(p.y, 2)), FPow(p.z, 2)))

\* r3 = r**3, and r3 = r*r*r in the final Cython version
Cube(v, r) == IF v = "cython" THEN FMul(FMul(r, r), r) ELSE FPow(r, 3)

\* a force with the sign lost: Fx = planet.x / r3, pushing away from the origin
ForceRepulsive(v, p) ==
    LET r3 == Cube(v, Radius(p))
    IN  [x |-> FDiv(p.x, r3),
         y |-> FDiv(p.y, r3),
         z |-> FDiv(p.z, r3)]

\* Fx, Fy, Fz = -planet.x / r3, -planet.y / r3, -planet.z / r3
Force(v, p) ==
    LET r3 == Cube(v, Radius(p))
    IN  [x |-> FDiv(FNeg(p.x), r3),
         y |-> FDiv(FNeg(p.y), r3),
         z |-> FDiv(FNeg(p.z), r3)]

\* the exception the force evaluation raises, before any field is written
ForceError(v, p) ==
    IF PowRaises(v) /\ (PowOverflows(p.x, 2) \/ PowOverflows(p.y, 2)
                          \/ PowOverflows(p.z, 2))
    THEN "OverflowError"
    ELSE IF PowRaises(v) /\ PowOverflows(Radius(p), 3) THEN "OverflowError"
    ELSE IF DivRaises(v) /\ Cube(v, Radius(p)) = 0 THEN "ZeroDivisionError"
    ELSE "none"

\* a position update that forgets dt: planet.x += planet.vx
UpdatePositionNoDt(p, d) ==
    [p EXCEPT !.x = FAdd(p.x, p.vx),
              !.y = FAdd(p.y, p.vy),
              !.z = FAdd(p.z, p.vz)]

\* a position update with a component mixed up: planet.y += planet.vz * dt
UpdatePositionMixed(p, d) ==
    [p EXCEPT !.x = FAdd(p.x, FMul(p.vx, d)),
              !.y = FAdd(p.y, FMul(p.vz, d)),
              !.z = FAdd(p.z, FMul(p.vz, d))]

\* update position: planet.x += planet.vx * dt, and y, z
UpdatePosition(p, d) ==
    [p EXCEPT !.x = FAdd(p.x, FMul(p.vx, d)),
              !.y = FAdd(p.y, FMul(p.vy, d)),
              !.z = FAdd(p.z, FMul(p.vz, d))]

\* a velocity update that also stores dt / m into the mass field
UpdateVelocityWritesMass(p, F, d) ==
    LET m == p.m
    IN  [p EXCEPT !.vx = FAdd(p.vx, FDiv(FMul(F.x, d), m)),
                  !.vy = FAdd(p.vy, FDiv(FMul(F.y, d), m)),
                  !.vz = FAdd(p.vz, FDiv(FMul(F.z, d), m)),
                  !.m = FDiv(d, m)]

\* update velocity: m = planet.m; planet.vx += Fx * dt / m, and vy, vz
UpdateVelocity(p, F, d) ==
    LET m == p.m
    IN  [p EXCEPT !.vx = FAdd(p.vx, FDiv(FMul(F.x, d), m)),
                  !.vy = FAdd(p.vy, FDiv(FMul(F.y, d), m)),
                  !.vz = FAdd(p.vz, FDiv(FMul(F.z, d), m))]

\* a semi-implicit step: the force is evaluated after the position was written
StepBodySemiImplicit(v, p, d) ==
    UpdateVelocity(UpdatePosition(p, d), Force(v, UpdatePosition(p, d)), d)

\* the body of single_step when nothing raises: the force is evaluated first,
\* then the position is written, then the velocity
StepBody(v, p, d) == UpdateVelocity(UpdatePosition(p, d), Force(v, p), d)

\* single_step(planet, dt): the planet it leaves and the exception it raises
SingleStepFn(v, p, d) ==
    IF ForceError(v, p) # "none"
    THEN [planet |-> p, err |-> ForceError(v, p)]
    ELSE IF DivRaises(v) /\ p.m = 0
    THEN [planet |-> UpdatePosition(p, d), err |-> "ZeroDivisionError"]
    ELSE [planet |-> StepBody(v, p, d), err |-> "none"]

\* ------------------------------------------------------------ propagate
\* a driver that never checks its division
DtErrorUnchecked(v, n) == "none"

\* dt = time_span / num_steps raises on num_steps = 0 unless cdivision(True)
DtError(v, n) == IF DivRaises(v) /\ n = 0 THEN "ZeroDivisionError" ELSE "none"

\* a step that is the whole time span: dt = time_span
DtOfNoDivision(t, n) == t

\* dt = time_span / num_steps
DtOf(t, n) == FDiv(t, FromInt(n))

\* a loop that runs one iteration too many
LoopContinuesOneMore(i, n) == i <= n

\* for _ in range(num_steps): the loop goes on while j < num_steps
LoopContinues(i, n) == i < n

\* ------------------------------------------------------------ the inputs
\* a magnitude whose square leaves the range of the format
Big == MaxFloat \div 4

\* the dt values handed to single_step: 0, 1/2, 1, -1 and a huge one
Dts == {0, Scale \div 2, Scale, -Scale, Big}

\* the time_span values handed to propagate
TimeSpans == {0, Scale, -Scale, 3 * Big}

\* the num_steps values handed to propagate
NumSteps == {-5} \cup (-1..MaxSteps)

\* the positional arguments a caller passes to Planet(...): none, or seven
\* scalars x, y, z, vx, vy, vz, m
CtorArgs ==
    {<<>>} \cup {<<Scale, 0, 0, 0, 0, Scale, mass>> : mass \in {-Scale, 0, 2 * Scale}}

\* the values a caller assigns to a public field: 0, 1.0 and -1.0
AssignValues == {0, Scale, -Scale}

\* ------------------------------------------------------------- the state
VARIABLES
    variant,    \* the implementation the run uses
    planet,     \* the Planet object
    pc,         \* "idle" between calls, "loop" inside propagate's for loop
    time_span,  \* propagate's argument
    num_steps,  \* propagate's argument
    dt,         \* propagate's local dt
    j,          \* propagate's loop counter: the iterations begun
    err,        \* how the latest call ended: "none" or the exception raised
    op,         \* the latest call: "Planet", "assign", "single_step", "propagate"
    args,       \* the arguments of the latest Planet(...) call
    stepDt,     \* the dt of the latest single_step invocation
    prev,       \* the planet as the latest single_step invocation found it
    entry,      \* the planet as the latest call found it
    steps,      \* the single_step invocations of the latest propagate that returned
    written,    \* a field was assigned from outside since the Planet was made
    atOrigin,   \* single_step was called with r = 0 since the Planet was made
    calls       \* the calls made so far

vars == <<variant, planet, pc, time_span, num_steps, dt, j, err, op, args,
          stepDt, prev, entry, steps, written, atOrigin, calls>>

frame == <<time_span, num_steps, dt, j, steps>>

Init ==
    /\ variant \in Variants
    /\ planet = NewPlanet
    /\ pc = "idle"
    /\ time_span = 0
    /\ num_steps = 0
    /\ dt = 0
    /\ j = 0
    /\ err = "none"
    /\ op = "Planet"
    /\ args = <<>>
    /\ stepDt = 0
    /\ prev = NewPlanet
    /\ entry = NewPlanet
    /\ steps = 0
    /\ written = FALSE
    /\ atOrigin = FALSE
    /\ calls = 0

\* planet = Planet(*a): a fresh Planet replaces the old one, or TypeError
Construct(a) ==
    /\ pc = "idle"
    /\ calls < MaxCalls
    /\ calls' = calls + 1
    /\ op' = "Planet"
    /\ args' = a
    /\ entry' = planet
    /\ IF CtorAccepts(a)
       THEN /\ planet' = NewPlanet /\ err' = "none"
            /\ written' = FALSE /\ atOrigin' = FALSE
       ELSE /\ planet' = planet /\ err' = "TypeError"
            /\ written' = written /\ atOrigin' = atOrigin
    /\ UNCHANGED <<variant, pc, frame, stepDt, prev>>

\* planet.f = val: the fields are public (plain attributes, cdef public
\* double, jitclass members), so the caller sets the initial conditions
Assign(f, val) ==
    /\ pc = "idle"
    /\ calls < MaxCalls
    /\ calls' = calls + 1
    /\ op' = "assign"
    /\ entry' = planet
    /\ planet' = [planet EXCEPT ![f] = val]
    /\ err' = "none"
    /\ written' = TRUE
    /\ atOrigin' = atOrigin
    /\ UNCHANGED <<variant, pc, frame, args, stepDt, prev>>

\* single_step(planet, d), called directly
SingleStep(d) ==
    /\ pc = "idle"
    /\ calls < MaxCalls
    /\ calls' = calls + 1
    /\ op' = "single_step"
    /\ entry' = planet
    /\ prev' = planet
    /\ stepDt' = d
    /\ planet' = SingleStepFn(variant, planet, d).planet
    /\ err' = SingleStepFn(variant, planet, d).err
    /\ atOrigin' = (atOrigin \/ Radius(planet) = 0)
    /\ UNCHANGED <<variant, pc, frame, args, written>>

\* propagate(planet, t, n) up to its for loop: dt = time_span / num_steps
PropagateCall(t, n) ==
    /\ pc = "idle"
    /\ calls < MaxCalls
    /\ calls' = calls + 1
    /\ op' = "propagate"
    /\ entry' = planet
    /\ time_span' = t
    /\ num_steps' = n
    /\ j' = 0
    /\ steps' = 0
    /\ IF DtError(variant, n) # "none"
       THEN /\ err' = DtError(variant, n)
            /\ pc' = "idle"
            /\ dt' = dt
       ELSE /\ err' = "none"
            /\ pc' = "loop"
            /\ dt' = DtOf(t, n)
    /\ UNCHANGED <<variant, planet, args, stepDt, prev, written, atOrigin>>

\* one iteration of propagate's loop: single_step(planet, dt)
PropagateStep ==
    /\ pc = "loop"
    /\ LoopContinues(j, num_steps)
    /\ j' = j + 1
    /\ prev' = planet
    /\ stepDt' = dt
    /\ planet' = SingleStepFn(variant, planet, dt).planet
    /\ err' = SingleStepFn(variant, planet, dt).err
    /\ IF SingleStepFn(variant, planet, dt).err = "none"
       THEN pc' = "loop" /\ steps' = steps + 1
       ELSE pc' = "idle" /\ steps' = steps
    /\ atOrigin' = (atOrigin \/ Radius(planet) = 0)
    /\ UNCHANGED <<variant, time_span, num_steps, dt, op, args, entry, written,
                   calls>>

\* the loop is exhausted: propagate returns
PropagateReturn ==
    /\ pc = "loop"
    /\ ~LoopContinues(j, num_steps)
    /\ pc' = "idle"
    /\ UNCHANGED <<variant, planet, time_span, num_steps, dt, j, err, op, args,
                   stepDt, prev, entry, steps, written, atOrigin, calls>>

Next ==
    \/ \E a \in CtorArgs : Construct(a)
    \/ \E f \in Fields, val \in AssignValues : Assign(f, val)
    \/ \E d \in Dts : SingleStep(d)
    \/ \E t \in TimeSpans, n \in NumSteps : PropagateCall(t, n)
    \/ PropagateStep
    \/ PropagateReturn

Spec == Init /\ [][Next]_vars

\* the thread that called propagate runs its loop to the end
FairSpec == Spec /\ WF_vars(PropagateStep) /\ WF_vars(PropagateReturn)

\* ------------------------------------------------------------ the types
FloatPlanet == \A f \in Fields : planet[f] \in Float

TypeOK ==
    /\ variant \in Variants
    /\ FloatPlanet
    /\ pc \in {"idle", "loop"}
    /\ dt \in Float
    /\ j \in 0..MaxSteps
    /\ steps \in 0..MaxSteps
    /\ err \in {"none", "TypeError", "OverflowError", "ZeroDivisionError"}
    /\ written \in BOOLEAN
    /\ atOrigin \in BOOLEAN
    /\ calls \in 0..MaxCalls

\* ------------------------------------------------------------- the claims
\* the planet is what the latest single_step invocation left on returning
\* normally (called directly or from propagate's loop)
StepInvoked == op = "single_step" \/ (op = "propagate" /\ j > 0)

StepDone == StepInvoked /\ err = "none"

AllFinite(p) == \A f \in Fields : IsFinite(p[f])

\* C1: a single_step that returns from a body state with r # 0 (a Body has
\* a positive mass) leaves x' = x + v*dt and v' = v + (F(x)/m)*dt on all
\* three axes, with F(x) = -x/r^3 evaluated at the position the step found,
\* and the mass as it was.
EulerFromOldState ==
    (StepDone /\ Radius(prev) # 0 /\ IsFinite(prev.m) /\ prev.m > 0) =>
        LET r3 == Cube(variant, Radius(prev))
            Fx == FDiv(FNeg(prev.x), r3)
            Fy == FDiv(FNeg(prev.y), r3)
            Fz == FDiv(FNeg(prev.z), r3)
        IN  /\ planet.x = FAdd(prev.x, FMul(prev.vx, stepDt))
            /\ planet.y = FAdd(prev.y, FMul(prev.vy, stepDt))
            /\ planet.z = FAdd(prev.z, FMul(prev.vz, stepDt))
            /\ planet.vx = FAdd(prev.vx, FMul(FDiv(Fx, prev.m), stepDt))
            /\ planet.vy = FAdd(prev.vy, FMul(FDiv(Fy, prev.m), stepDt))
            /\ planet.vz = FAdd(prev.vz, FMul(FDiv(Fz, prev.m), stepDt))
            /\ planet.m = prev.m

\* a step has returned that moved the planet to a place where the force
\* differs from the force at the place it left
EulerFromOldStateWitness ==
    /\ StepDone
    /\ Radius(prev) # 0
    /\ AllFinite(planet)
    /\ planet.x # prev.x
    /\ planet.vz # prev.vz
    /\ Force(variant, planet) # Force(variant, prev)

\* C2: a propagate call with num_steps > 0 (on a Planet that only the
\* constructor, single_step and propagate have written) that has ended made
\* exactly num_steps single_step invocations, each with the
\* dt = time_span / num_steps computed at entry.
ExactlyNumSteps ==
    (op = "propagate" /\ num_steps > 0 /\ ~written) =>
        /\ dt = DtOf(time_span, num_steps)
        /\ j > 0 => stepDt = dt
        /\ j <= num_steps
        /\ pc = "idle" => j = num_steps

\* the planet after n direct calls single_step(p, d), one after the other
RECURSIVE DirectCalls(_, _, _, _)
DirectCalls(v, p, d, n) ==
    IF n <= 0 THEN p ELSE DirectCalls(v, SingleStepFn(v, p, d).planet, d, n - 1)

\* C3: propagate(planet, T, N) with N > 0 on a fresh Planet leaves it as N
\* direct calls single_step(planet, T/N) leave a fresh Planet.
PropagateIsRepeatedStep ==
    (op = "propagate" /\ pc = "idle" /\ num_steps > 0 /\ entry = NewPlanet) =>
        planet = DirectCalls(variant, NewPlanet, FDiv(time_span, FromInt(num_steps)),
                             num_steps)

\* a propagate of several steps has returned and moved a fresh Planet
PropagateIsRepeatedStepWitness ==
    /\ op = "propagate"
    /\ pc = "idle"
    /\ entry = NewPlanet
    /\ num_steps >= 2
    /\ steps = num_steps
    /\ err = "none"
    /\ planet.x # NewPlanet.x
    /\ planet.z # NewPlanet.z

\* C4 as stated: propagate with num_steps = 0 ends in an error, in every
\* implementation, without a step taken.
ZeroStepsRejected ==
    (op = "propagate" /\ pc = "idle" /\ num_steps = 0) =>
        (err # "none" /\ j = 0)

\* C4 as amended: propagate with num_steps = 0 takes no step and leaves the
\* planet as it was; where division is checked (python, numba) it ends in
\* ZeroDivisionError at entry, under cdivision(True) it raises nothing, dt is
\* an infinity or NaN and the call returns normally.
ZeroStepsByVariant ==
    (op = "propagate" /\ num_steps = 0) =>
        /\ j = 0
        /\ steps = 0
        /\ planet = entry
        /\ variant \in {"python", "numba"} =>
               (pc = "idle" /\ err = "ZeroDivisionError")
        /\ variant = "cython" =>
               (err = "none" /\ dt = DtOf(time_span, 0) /\ ~IsFinite(dt))

\* the cdivision(True) propagate has returned normally from num_steps = 0
ZeroStepsByVariantWitness ==
    /\ op = "propagate"
    /\ pc = "idle"
    /\ num_steps = 0
    /\ variant = "cython"
    /\ err = "none"
    /\ time_span # 0
    /\ IsInf(dt)

\* C5: propagate with a negative num_steps ends in an error.
NegativeStepsRejected ==
    (op = "propagate" /\ pc = "idle" /\ num_steps < 0) => err # "none"

\* C6 as stated: a construction with a non-positive mass fails with
\* InvalidState.
NonPositiveMassInvalidState ==
    (op = "Planet" /\ Len(args) = 7 /\ args[7] <= 0) => err = "InvalidState"

\* C6 as amended: the constructor takes no mass.  A call without arguments
\* succeeds and yields mass 1.0, a call that passes values fails with
\* TypeError whatever the mass (a positive one too) and yields no Planet; so
\* no Planet with mass <= 0 comes out of the constructor.
ConstructorFixesMass ==
    (op = "Planet") =>
        /\ err = "none" <=> Len(args) = 0
        /\ err # "none" => (err = "TypeError" /\ planet = entry)
        /\ err = "none" =>
               (IsFinite(planet.m) /\ planet.m > 0 /\ planet.m = FromInt(1))

\* a construction with a non-positive mass has been attempted
ConstructorFixesMassWitness ==
    /\ op = "Planet"
    /\ Len(args) = 7
    /\ args[7] <= 0
    /\ err = "TypeError"

\* C7 as stated: a single_step with dt = 0 that returns from a body state
\* with r # 0 (and the positive mass a Body has) leaves the planet as it was.
ZeroDtIdentity ==
    (/\ StepDone
     /\ stepDt = 0
     /\ Radius(prev) # 0
     /\ IsFinite(prev.m)
     /\ prev.m > 0) => planet = prev

\* C7 as amended: a single_step with dt = 0 that returns leaves the planet
\* as it was when all seven fields are finite, the mass is not zero and
\* r3 # 0; this covers the fresh Planet (1,0,0), (0,0,1), mass 1.
ZeroDtIdentityFinite ==
    (/\ StepDone
     /\ stepDt = 0
     /\ AllFinite(prev)
     /\ prev.m # 0
     /\ Cube(variant, Radius(prev)) # 0) => planet = prev

\* single_step(planet, 0) has returned on the fresh Planet
ZeroDtIdentityFiniteWitness ==
    /\ op = "single_step"
    /\ err = "none"
    /\ stepDt = 0
    /\ prev = NewPlanet
    /\ planet = NewPlanet

\* C8: as long as the caller assigns no field, the mass is the constructor's
\* 1.0 > 0 in every state; and no single_step or propagate call changes the
\* mass it found, whatever it was.
MassNeverWritten ==
    /\ ~written => (planet.m = FromInt(1) /\ planet.m > 0 /\ IsFinite(planet.m))
    /\ op \in {"single_step", "propagate"} => planet.m = entry.m

\* a propagate of several steps has moved a Planet no caller assigned to
MassNeverWrittenWitness ==
    /\ ~written
    /\ op = "propagate"
    /\ steps >= 2
    /\ planet.vx # entry.vx
    /\ planet.z # entry.z

\* C9 as stated: no single_step invocation raises, and one that finds the
\* planet at the origin leaves a non-finite value in it.
SingleStepNeverRaises ==
    StepInvoked =>
        /\ err = "none"
        /\ Radius(prev) = 0 => ~AllFinite(planet)

\* C9 as amended: under cdivision(True) single_step raises nothing, and at
\* r = 0 it returns with a non-finite value (NaN or an infinity) in each of
\* the three velocity components; in the
\* Python and Numba versions a step at r = 0 raises ZeroDivisionError with
\* no field written, and only the Python version raises OverflowError (a
\* square or the cube out of range), also with no field written.
StepErrorsByVariant ==
    StepInvoked =>
        /\ variant = "cython" => err = "none"
        /\ (variant = "cython" /\ Radius(prev) = 0) =>
               (/\ ~IsFinite(planet.vx)
                /\ ~IsFinite(planet.vy)
                /\ ~IsFinite(planet.vz))
        /\ (variant # "cython" /\ Radius(prev) = 0) =>
               (err = "ZeroDivisionError" /\ planet = prev)
        /\ err = "OverflowError" => (variant = "python" /\ planet = prev)

\* the cdivision(True) single_step has returned from the origin
StepErrorsByVariantWitness ==
    /\ op = "single_step"
    /\ variant = "cython"
    /\ Radius(prev) = 0
    /\ err = "none"
    /\ planet.vx = NaN

\* C10: a propagate call that has ended (on a Planet that only the
\* constructor, single_step and propagate have written) either made all its
\* steps and returned normally, or raised with no step made and the planet
\* as the call found it.
NoPartialFailure ==
    (op = "propagate" /\ pc = "idle" /\ ~written) =>
        \/ err = "none" /\ steps = (IF num_steps > 0 THEN num_steps ELSE 0)
        \/ err # "none" /\ steps = 0 /\ planet = entry

\* a Planet in radial free fall: the fresh Planet with its velocity set to 0
FreeFall == [NewPlanet EXCEPT !.vz = 0]

\* C11: a body in radial free fall from (1,0,0), propagated over a total
\* time 1.0 in num_steps >= 2 equal steps (dt <= 1/2), has a smaller radius
\* after every step of the run than before it, the very first step included.
RadialFallShrinks ==
    (/\ op = "propagate"
     /\ entry = FreeFall
     /\ time_span = FromInt(1)
     /\ num_steps >= 2
     /\ j >= 1) =>
        /\ err = "none"
        /\ IsFinite(Radius(planet))
        /\ Radius(planet) < Radius(prev)

\* C11 (amended): in that run the first step leaves the radius as it was,
\* the position being advanced with the zero velocity from before the step,
\* and every later step ends with a radius smaller than the step before it.
RadialFallShrinksAfterFirst ==
    (/\ op = "propagate"
     /\ entry = FreeFall
     /\ time_span = FromInt(1)
     /\ num_steps >= 2
     /\ j >= 1) =>
        /\ err = "none"
        /\ IsFinite(Radius(planet))
        /\ (j = 1 => Radius(planet) = Radius(entry))
        /\ (j >= 2 => Radius(planet) < Radius(prev))

\* the third step of a free fall has returned with the radius smaller again
RadialFallShrinksAfterFirstWitness ==
    /\ op = "propagate"
    /\ entry = FreeFall
    /\ time_span = FromInt(1)
    /\ j >= 3
    /\ err = "none"
    /\ Radius(planet) < Radius(prev)
    /\ Radius(prev) < Radius(entry)

\* C12 as stated: a Planet constructed with seven explicit values exists and
\* holds exactly the values passed, in the order x, y, z, vx, vy, vz, m.
ConstructorHoldsPassedValues ==
    (op = "Planet" /\ Len(args) = 7) =>
        /\ err = "none"
        /\ planet = [x |-> args[1], y |-> args[2], z |-> args[3],
                     vx |-> args[4], vy |-> args[5], vz |-> args[6],
                     m |-> args[7]]

\* C12 (amended): the constructor takes no values.  Called without
\* arguments it yields the fixed state (1,0,0), (0,0,1), mass 1; called with
\* seven values it raises TypeError and the caller keeps the Planet it had.
ConstructorFixesState ==
    (op = "Planet") =>
        /\ Len(args) = 0 =>
               /\ err = "none"
               /\ planet = [x |-> FromInt(1), y |-> 0, z |-> 0,
                            vx |-> 0, vy |-> 0, vz |-> FromInt(1),
                            m |-> FromInt(1)]
        /\ Len(args) = 7 => (err = "TypeError" /\ planet = entry)

\* seven valid values, a positive mass among them, were passed and refused
ConstructorFixesStateWitness ==
    /\ op = "Planet"
    /\ Len(args) = 7
    /\ args[7] > 0
    /\ err = "TypeError"
    /\ planet.m # args[7]

\* the for loop of propagate as a function: n calls of single_step, left at
\* the first one that raises
RECURSIVE PropagateLoop(_, _, _, _)
PropagateLoop(v, p, d, n) ==
    IF n <= 0
    THEN [planet |-> p, err |-> "none"]
    ELSE LET step == SingleStepFn(v, p, d)
         IN  IF step.err # "none"
             THEN step
             ELSE PropagateLoop(v, step.planet, d, n - 1)

\* propagate(planet, t, n) as a function of the Planet and its two arguments
PropagateFn(v, p, t, n) ==
    IF DtError(v, n) # "none"
    THEN [planet |-> p, err |-> DtError(v, n)]
    ELSE PropagateLoop(v, p, DtOf(t, n), n)

\* the typed Cython version before the last one: cdivision(True) on both
\* functions, C int num_steps, and still r3 = r**3 (the C pow)
CythonPow == "cython_pow"

\* what the pure Python propagate makes of the call that has just returned
PythonOutcome == PropagateFn("python", entry, time_span, num_steps)

TwiceTimeSpan == FMul(FromInt(2), time_span)

\* the call that has just returned, made once more on the Planet it left
CalledTwice == PropagateFn(variant, planet, time_span, num_steps)

\* one call over twice the time in twice the steps, on the Planet the call
\* that has just returned was given
CalledOnceDoubled == PropagateFn(variant, entry, TwiceTimeSpan, 2 * num_steps)

\* C14 as stated: for any Planet, any T and any N > 0, propagate(planet, T, N)
\* called twice leaves the Planet as one propagate(planet, 2T, 2N) leaves it.
PropagateComposes ==
    (op = "propagate" /\ pc = "idle" /\ num_steps > 0 /\ err = "none") =>
        CalledTwice = CalledOnceDoubled

\* C14 (amended): a propagate call ends as a function of the Planet's fields
\* and its two arguments, whatever was called before; and where 2T is a
\* finite double, two calls with (T, N) end as one call with (2T, 2N).
PropagateComposesFiniteSpan ==
    (op = "propagate" /\ pc = "idle") =>
        /\ [planet |-> planet, err |-> err] =
               PropagateFn(variant, entry, time_span, num_steps)
        /\ (num_steps > 0 /\ err = "none" /\ IsFinite(TwiceTimeSpan)) =>
               CalledTwice = CalledOnceDoubled

\* a second call in a row, of several steps, has returned and moved the
\* Planet, and repeating it would move the Planet again
PropagateComposesFiniteSpanWitness ==
    /\ op = "propagate"
    /\ pc = "idle"
    /\ calls = 2
    /\ num_steps >= 2
    /\ err = "none"
    /\ time_span # 0
    /\ IsFinite(TwiceTimeSpan)
    /\ planet # entry
    /\ CalledTwice.err = "none"
    /\ CalledTwice.planet # planet
    /\ CalledTwice = CalledOnceDoubled

\* C15 as stated: on a Planet that only the constructor, single_step and
\* propagate have written, and that no step has found at r = 0, y and vy are
\* still zero, whatever the time steps were.
MotionStaysInPlane ==
    (~written /\ ~atOrigin) => (planet.y = 0 /\ planet.vy = 0)

\* C15 (amended): on such a Planet y and vy are zero as long as every field
\* is finite; once a time step was large enough to overflow a coordinate
\* they are zero or NaN.
MotionStaysInPlaneWhileFinite ==
    ~written =>
        /\ planet.y \in {0, NaN}
        /\ planet.vy \in {0, NaN}
        /\ AllFinite(planet) => (planet.y = 0 /\ planet.vy = 0)

\* several steps of a propagate call have moved a constructed Planet along
\* x and z, and every field is still finite
MotionStaysInPlaneWhileFiniteWitness ==
    /\ ~written
    /\ ~atOrigin
    /\ op = "propagate"
    /\ j >= 2
    /\ err = "none"
    /\ AllFinite(planet)
    /\ planet.x # FromInt(1)
    /\ planet.z # 0
    /\ planet.vx # 0
    /\ planet.y = 0
    /\ planet.vy = 0

=============================================================================
